---------------------------- MODULE Spec2Model ----------------------------
(***************************************************************************)
(* LocalMinReverseCommunication: Brent's local minimiser with reverse      *)
(* communication (include/LocalMinReverseCommunication.hpp), and the       *)
(* caller loop of test/tests.cpp.                                          *)
(*                                                                         *)
(* The fields of the object are C++ doubles.  They are modelled as IEEE    *)
(* 754 binary64 values with round-to-nearest-even arithmetic, so a sum, a  *)
(* product or a quotient of the model is the double the program computes.  *)
(* A finite double is the record [s, m, e] of value (-1)^s * m * 2^e with  *)
(* either m = 0 (a signed zero, e = 0) or 2^52 <= m < 2^53.  The 53 bit    *)
(* significand m does not fit TLC's 32 bit integers: it is a little-endian *)
(* sequence of limbs in base 2^15 without leading zero limbs.  A result of *)
(* 2^1024 or more is an infinity, an invalid operation gives a NaN; both   *)
(* are records with m = 0 and their own e.  A NaN has a sign bit, which    *)
(* std::copysign reads: it is the one x86-64 gives (set for the NaN of an  *)
(* invalid operation, kept from the first NaN operand otherwise).          *)
(* Subnormals are not modelled: NoUnderflow states that none arises.       *)
(***************************************************************************)
EXTENDS Integers, Sequences, FiniteSets, TLC

-----------------------------------------------------------------------------
(* Natural numbers of arbitrary size.                                      *)

LimbBits == 15
Base == 2^LimbBits

BDigit(x, i) == IF i <= Len(x) THEN x[i] ELSE 0

RECURSIVE BTrim(_)
BTrim(x) ==
    IF Len(x) = 0 THEN x
    ELSE IF x[Len(x)] = 0 THEN BTrim(SubSeq(x, 1, Len(x) - 1))
    ELSE x

RECURSIVE BAddFrom(_, _, _, _)
BAddFrom(x, y, i, cy) ==
    IF i > Len(x) /\ i > Len(y) THEN (IF cy = 0 THEN <<>> ELSE <<cy>>)
    ELSE LET t == BDigit(x, i) + BDigit(y, i) + cy
         IN  <<t % Base>> \o BAddFrom(x, y, i + 1, t \div Base)

BAdd(x, y) == BAddFrom(x, y, 1, 0)

\* x - y for x >= y
RECURSIVE BSubFrom(_, _, _, _)
BSubFrom(x, y, i, bw) ==
    IF i > Len(x) THEN <<>>
    ELSE LET t == x[i] - BDigit(y, i) - bw
         IN  IF t < 0 THEN <<t + Base>> \o BSubFrom(x, y, i + 1, 1)
             ELSE <<t>> \o BSubFrom(x, y, i + 1, 0)

BSub(x, y) == BTrim(BSubFrom(x, y, 1, 0))

RECURSIVE BCmpAt(_, _, _)
BCmpAt(x, y, i) ==
    IF i = 0 THEN 0
    ELSE IF x[i] < y[i] THEN -1
    ELSE IF x[i] > y[i] THEN 1
    ELSE BCmpAt(x, y, i - 1)

\* -1, 0, 1 as x < y, x = y, x > y
BCmp(x, y) ==
    IF Len(x) < Len(y) THEN -1
    ELSE IF Len(x) > Len(y) THEN 1
    ELSE BCmpAt(x, y, Len(x))

\* x * k for 0 <= k <= Base
RECURSIVE BMulSmallFrom(_, _, _, _)
BMulSmallFrom(x, k, i, cy) ==
    IF i > Len(x) THEN (IF cy = 0 THEN <<>> ELSE <<cy>>)
    ELSE LET t == x[i] * k + cy
         IN  <<t % Base>> \o BMulSmallFrom(x, k, i + 1, t \div Base)

BMulSmall(x, k) == IF k = 0 THEN <<>> ELSE BMulSmallFrom(x, k, 1, 0)

RECURSIVE BMulFrom(_, _, _)
BMulFrom(x, y, j) ==
    IF j > Len(y) THEN <<>>
    ELSE LET rest == BMulFrom(x, y, j + 1)
             high == IF rest = <<>> THEN <<>> ELSE <<0>> \o rest
         IN  BAdd(BMulSmall(x, y[j]), high)

BMul(x, y) == IF x = <<>> THEN <<>> ELSE BMulFrom(x, y, 1)

Zeros(n) == [i \in 1..n |-> 0]

\* x * 2^k
BShl(x, k) ==
    IF x = <<>> THEN <<>>
    ELSE Zeros(k \div LimbBits) \o BMulSmall(x, 2^(k % LimbBits))

\* x \div 2^k
BShr(x, k) ==
    LET n == k \div LimbBits
        r == k % LimbBits
        y == IF n >= Len(x) THEN <<>> ELSE SubSeq(x, n + 1, Len(x))
    IN  BTrim([i \in 1..Len(y) |->
                 (y[i] \div 2^r) + (BDigit(y, i + 1) % 2^r) * 2^(LimbBits - r)])

\* the number of bits of x: 0 for 0, else the n with 2^(n-1) <= x < 2^n
BBitLen(x) ==
    IF x = <<>> THEN 0
    ELSE LimbBits * (Len(x) - 1)
         + (CHOOSE n \in 1..LimbBits : 2^(n - 1) <= x[Len(x)] /\ x[Len(x)] < 2^n)

BOdd(x) == x # <<>> /\ x[1] % 2 = 1

BOne == <<1>>

\* 2^k
BPow2(k) == Zeros(k \div LimbBits) \o <<2^(k % LimbBits)>>

\* bit k of x (bit 0 is the lowest)
BBit(x, k) == (BDigit(x, k \div LimbBits + 1) \div 2^(k % LimbBits)) % 2

\* the natural number n < Base^2
BNat(n) == BTrim(<<n % Base, n \div Base>>)

-----------------------------------------------------------------------------
(* IEEE 754 binary64, round to nearest, ties to even.                      *)

Precision == 53

\* Values of 2^MaxExponent and more are infinite.
MaxExponent == 1024

\* The e of the records without significand: zero, infinity, NaN.
ZeroClass == 0
InfClass == 1
NaNClass == 2

FZero(s) == [s |-> s, m |-> <<>>, e |-> ZeroClass]
FInf(s) == [s |-> s, m |-> <<>>, e |-> InfClass]
FNaN(s) == [s |-> s, m |-> <<>>, e |-> NaNClass]

IsZero(x) == x.m = <<>> /\ x.e = ZeroClass
IsInf(x) == x.m = <<>> /\ x.e = InfClass
IsNaN(x) == x.m = <<>> /\ x.e = NaNClass

\* The sign of a product or a quotient.
SignOf(x, y) == IF x.s = y.s THEN 0 ELSE 1

\* A significand of Precision bits at exponent e: a double, or too large.
FFinite(s, m, e) ==
    IF e + Precision > MaxExponent THEN FInf(s) ELSE [s |-> s, m |-> m, e |-> e]

\* Rounding M to M \div 2^k, to nearest and ties to even, adds this to M first:
\* 2^(k-1) when the bit kept last is odd, one less when it is even.
RoundBias(k, odd) ==
    IF odd = 1 THEN BPow2(k - 1) ELSE BSub(BPow2(k - 1), BOne)

\* A significand q of Precision bits, or 2^Precision after a carry.
FCarry(s, q, e) ==
    IF BBitLen(q) > Precision THEN FFinite(s, BShr(q, 1), e + 1)
    ELSE FFinite(s, q, e)

\* M has k bits more than the precision (k <= 0: fewer, nothing is lost).
FRoundBits(s, M, E, k) ==
    IF k <= 0 THEN FFinite(s, BShl(M, -k), E + k)
    ELSE FCarry(s, BShr(BAdd(M, RoundBias(k, BBit(M, k))), k), E + k)

\* The double nearest to (-1)^s * M * 2^E, for a natural number M.
FRound(s, M, E) ==
    IF M = <<>> THEN FZero(s) ELSE FRoundBits(s, M, E, BBitLen(M) - Precision)

\* The double of the integer n, |n| < Base^2.
FInt(n) == FRound(IF n < 0 THEN 1 ELSE 0, BNat(IF n < 0 THEN -n ELSE n), 0)

\* x * 2^k
FScale(x, k) == IF x.m = <<>> THEN x ELSE FFinite(x.s, x.m, x.e + k)

FNeg(x) == [x EXCEPT !.s = 1 - @]

\* std::fabs
FAbs(x) == [x EXCEPT !.s = 0]

\* std::copysign(mag, sgn): mag with the sign bit of sgn (a zero has one too).
FCopysign(mag, sgn) == [mag EXCEPT !.s = sgn.s]

\* -1, 0, 1 as |x| < |y|, |x| = |y|, |x| > |y|, for x and y no NaN
MagCmp(x, y) ==
    IF IsZero(x) THEN (IF IsZero(y) THEN 0 ELSE -1)
    ELSE IF IsZero(y) THEN 1
    ELSE IF IsInf(x) THEN (IF IsInf(y) THEN 0 ELSE 1)
    ELSE IF IsInf(y) THEN -1
    ELSE IF x.e < y.e THEN -1
    ELSE IF x.e > y.e THEN 1
    ELSE BCmp(x.m, y.m)

\* -1, 0, 1 as x < y, x == y, x > y (the two zeros are equal), for no NaN
FCmp(x, y) ==
    IF IsZero(x) /\ IsZero(y) THEN 0
    ELSE IF IsZero(x) THEN (IF y.s = 1 THEN 1 ELSE -1)
    ELSE IF IsZero(y) THEN (IF x.s = 1 THEN -1 ELSE 1)
    ELSE IF x.s # y.s THEN (IF x.s = 1 THEN -1 ELSE 1)
    ELSE IF x.s = 0 THEN MagCmp(x, y)
    ELSE MagCmp(y, x)

IsFinite(x) == x.m # <<>> \/ x.e = ZeroClass

\* A comparison with a NaN is false.
Ordered(x, y) == ~IsNaN(x) /\ ~IsNaN(y)

FEq(x, y) == Ordered(x, y) /\ FCmp(x, y) = 0
FLt(x, y) == Ordered(x, y) /\ FCmp(x, y) < 0
FLe(x, y) == Ordered(x, y) /\ FCmp(x, y) <= 0

\* A summand 2^AlignLimit times smaller than the other does not change the
\* rounded sum.
AlignLimit == 64

\* The sum of two significands at the same exponent e0; c compares them.
\* An exact zero difference is +0.
AddAligned(sx, Mx, sy, My, e0, c) ==
    FRound(IF sx = sy THEN sx ELSE IF c = 0 THEN 0 ELSE IF c > 0 THEN sx ELSE sy,
           IF sx = sy THEN BAdd(Mx, My)
           ELSE IF c >= 0 THEN BSub(Mx, My) ELSE BSub(My, Mx),
           e0)

AddShifted(sx, Mx, sy, My, e0) == AddAligned(sx, Mx, sy, My, e0, BCmp(Mx, My))

FAdd(x, y) ==
    IF IsNaN(x) THEN x
    ELSE IF IsNaN(y) THEN y
    ELSE IF IsInf(x) THEN (IF IsInf(y) /\ x.s # y.s THEN FNaN(1) ELSE x)
    ELSE IF IsInf(y) THEN y
    ELSE IF IsZero(x) THEN (IF IsZero(y) THEN FZero(IF x.s = 1 /\ y.s = 1 THEN 1 ELSE 0) ELSE y)
    ELSE IF IsZero(y) THEN x
    ELSE IF x.e - y.e > AlignLimit THEN x
    ELSE IF y.e - x.e > AlignLimit THEN y
    ELSE IF x.e < y.e
    THEN AddShifted(x.s, x.m, y.s, BShl(y.m, y.e - x.e), x.e)
    ELSE AddShifted(x.s, BShl(x.m, x.e - y.e), y.s, y.m, y.e)

\* A NaN operand is the result as it is.
FSub(x, y) ==
    IF IsNaN(x) THEN x
    ELSE IF IsNaN(y) THEN y
    ELSE FAdd(x, FNeg(y))

\* |x| as a multiple of 2^e0, for e0 not above the exponent of x.
Aligned(x, e0) == IF x.m = <<>> THEN <<>> ELSE BShl(x.m, x.e - e0)

\* |(-1)^sx * Mx - (-1)^sy * My|
Distance(sx, Mx, sy, My) ==
    IF sx # sy THEN BAdd(Mx, My)
    ELSE IF BCmp(Mx, My) >= 0 THEN BSub(Mx, My) ELSE BSub(My, Mx)

LeastOf(i, j, k) == IF i <= j /\ i <= k THEN i ELSE IF j <= k THEN j ELSE k

CloserAt(x, y, t, e0) ==
    BCmp(Distance(x.s, Aligned(x, e0), y.s, Aligned(y, e0)), Aligned(t, e0)) < 0

\* |x - y| < t for finite doubles, without any rounding of the difference.
Closer(x, y, t) ==
    /\ IsFinite(x) /\ IsFinite(y) /\ IsFinite(t)
    /\ CloserAt(x, y, t, LeastOf(x.e, y.e, t.e))

FartherAt(x, y, t, e0) ==
    BCmp(Distance(x.s, Aligned(x, e0), y.s, Aligned(y, e0)), Aligned(t, e0)) > 0

\* |x - y| > t for finite doubles, without any rounding of the difference.
Farther(x, y, t) ==
    /\ IsFinite(x) /\ IsFinite(y) /\ IsFinite(t)
    /\ FartherAt(x, y, t, LeastOf(x.e, y.e, t.e))

FMul(x, y) ==
    IF IsNaN(x) THEN x
    ELSE IF IsNaN(y) THEN y
    ELSE IF IsInf(x) \/ IsInf(y)
    THEN (IF IsZero(x) \/ IsZero(y) THEN FNaN(1) ELSE FInf(SignOf(x, y)))
    ELSE IF IsZero(x) \/ IsZero(y) THEN FZero(SignOf(x, y))
    ELSE FRound(SignOf(x, y), BMul(x.m, y.m), x.e + y.e)

\* Restoring division: n more quotient bits of rem / den (rem < den), on the
\* pair qr = <<quotient, rem>>.
RECURSIVE DivBits(_, _, _)
DivBits(qr, den, n) ==
    IF n = 0 THEN qr
    ELSE LET r2 == BShl(qr[2], 1)
             q2 == BShl(qr[1], 1)
         IN  IF BCmp(r2, den) >= 0
             THEN DivBits(<<BAdd(q2, BOne), BSub(r2, den)>>, den, n - 1)
             ELSE DivBits(<<q2, r2>>, den, n - 1)

\* Quotient bits kept below the integer part: two more than the precision,
\* then a sticky bit for a remainder, so that the rounding is the exact one.
DivGuard == 55

\* The quotient bits and a last bit that is set when a remainder is left.
Sticky(qr) == BAdd(BShl(qr[1], 1), IF qr[2] = <<>> THEN <<>> ELSE BOne)

FDiv(x, y) ==
    IF IsNaN(x) THEN x
    ELSE IF IsNaN(y) THEN y
    ELSE IF (IsInf(x) /\ IsInf(y)) \/ (IsZero(x) /\ IsZero(y)) THEN FNaN(1)
    ELSE IF IsInf(x) \/ IsZero(y) THEN FInf(SignOf(x, y))
    ELSE IF IsZero(x) \/ IsInf(y) THEN FZero(SignOf(x, y))
    ELSE FRound(SignOf(x, y),
                Sticky(DivBits(IF BCmp(x.m, y.m) >= 0 THEN <<BOne, BSub(x.m, y.m)>>
                               ELSE <<<<>>, x.m>>, y.m, DivGuard)),
                x.e - y.e - DivGuard - 1)

SqrtBitCount == 56

\* Bits of an integer square root still to decide, from bit n - 1 down.
RECURSIVE SqrtBits(_, _, _)
SqrtBits(N, root, n) ==
    IF n = 0 THEN root
    ELSE LET t == BAdd(root, BShl(BOne, n - 1))
         IN  IF BCmp(BMul(t, t), N) <= 0 THEN SqrtBits(N, t, n - 1)
             ELSE SqrtBits(N, root, n - 1)

\* The root bits and a last bit that is set when N is no square.
StickyRoot(N, root) == BAdd(BShl(root, 1), IF BMul(root, root) = N THEN <<>> ELSE BOne)

\* The integer square root of N < 2^(2 * SqrtBitCount), with its sticky bit.
SqrtSticky(N) == StickyRoot(N, SqrtBits(N, <<>>, SqrtBitCount))

\* std::sqrt(x) for a finite x > 0, correctly rounded: the exponent is made even first.
FSqrt(x) ==
    IF x.e % 2 = 0 THEN FRound(0, SqrtSticky(BShl(x.m, 58)), (x.e - 58) \div 2 - 1)
    ELSE FRound(0, SqrtSticky(BShl(x.m, 59)), (x.e - 59) \div 2 - 1)

\* x \div k for 0 < k < Base: the quotient digits of limbs i down to 1, rem
\* being the remainder of the limbs above.
RECURSIVE BDivSmallAt(_, _, _, _)
BDivSmallAt(x, k, i, rem) ==
    IF i = 0 THEN <<>>
    ELSE BDivSmallAt(x, k, i - 1, (rem * Base + x[i]) % k)
            \o <<(rem * Base + x[i]) \div k>>

BDivSmall(x, k) == BTrim(BDivSmallAt(x, k, Len(x), 0))

\* std::cos is computed in fixed point, with CosBits bits below the unit,
\* from the series 1 - x^2/2! + x^4/4! - ..., and rounded once.
CosBits == 120

\* |x| in units of 2^-CosBits
CosFixed(x) ==
    IF x.e + CosBits >= 0 THEN BShl(x.m, x.e + CosBits)
    ELSE BShr(x.m, -(x.e + CosBits))

\* x^2 in units of 2^-CosBits
CosSquare(X) == BShr(BMul(X, X), CosBits)

\* x^(n+1)/(n+1)! from t = x^(n-1)/(n-1)!
CosTerm(t, x2, n) == BDivSmall(BShr(BMul(t, x2), CosBits), n * (n + 1))

\* st = <<term, sum of the terms added, sum of the terms subtracted>>; the
\* term is x^(n-1)/(n-1)!, added when n = 1, 5, 9, ...
RECURSIVE CosSeries(_, _, _)
CosSeries(st, x2, n) ==
    IF st[1] = <<>> THEN st
    ELSE CosSeries(<<CosTerm(st[1], x2, n),
                     IF n % 4 = 1 THEN BAdd(st[2], st[1]) ELSE st[2],
                     IF n % 4 = 3 THEN BAdd(st[3], st[1]) ELSE st[3]>>, x2, n + 2)

CosRounded(st) ==
    IF BCmp(st[2], st[3]) >= 0 THEN FRound(0, BSub(st[2], st[3]), -CosBits)
    ELSE FRound(1, BSub(st[3], st[2]), -CosBits)

\* std::cos(x), for |x| of the size of the interval of the test
FCos(x) ==
    IF IsNaN(x) THEN x
    ELSE IF IsInf(x) THEN FNaN(1)
    ELSE IF IsZero(x) THEN FRound(0, BOne, 0)
    ELSE CosRounded(CosSeries(<<BPow2(CosBits), <<>>, <<>>>>, CosSquare(CosFixed(x)), 1))

-----------------------------------------------------------------------------
(* The object.  Each expression is evaluated as written in the source, one *)
(* rounding for each operation (no fused multiply-add); the statements of  *)
(* operator() are applied one after the other to the record m of fields.   *)

FHalf  == FRound(0, BOne, -1)
FTwo   == FInt(2)
FThree == FInt(3)
FFive  == FInt(5)

\* std::numeric_limits<double>::epsilon()
tol == FRound(0, BOne, 1 - Precision)

eps == FSqrt(tol)

\* The default member initialisers; a and b are set by the constructor.
NewObject(from, to) ==
    [a |-> from, b |-> to, iteration |-> 0,
     arg |-> FZero(0), c |-> FZero(0), d |-> FZero(0), e |-> FZero(0),
     fu |-> FZero(0), fv |-> FZero(0), fw |-> FZero(0), fx |-> FZero(0),
     p |-> FZero(0), q |-> FZero(0), r |-> FZero(0),
     u |-> FZero(0), v |-> FZero(0), w |-> FZero(0), x |-> FZero(0)]

\* A variant that accepts an empty interval (b < a for b <= a).
ConstructorThrowsStrict(from, to) == FLt(to, from)

\* The constructor throws when b <= a.
ConstructorThrows(from, to) == FLe(to, from)

IsReady(m) == m.iteration = 0

\* 0.5 * (3.0 - std::sqrt(5.0)), the square of the inverse of the golden ratio
GoldenC == FMul(FHalf, FSub(FThree, FSqrt(FFive)))

\* c = 0.5 * (3.0 - std::sqrt(5.0))
SetC(m) == [m EXCEPT !.c = GoldenC]

\* v = a + c * (b - a)
SetV(m) == [m EXCEPT !.v = FAdd(m.a, FMul(m.c, FSub(m.b, m.a)))]

\* A variant that starts at iteration 2.
StartAtTwo(m) ==
    [m EXCEPT !.w = m.v, !.x = m.v, !.e = FZero(0), !.iteration = 2, !.arg = m.v]

\* w = v; x = v; e = 0.0; iteration = 1; arg = x
Start(m) ==
    [m EXCEPT !.w = m.v, !.x = m.v, !.e = FZero(0), !.iteration = 1, !.arg = m.v]

\* First iteration: the first interior point.
FirstIteration(m) == Start(SetV(SetC(m)))

\* Second iteration: the value at the first point.
SecondIteration(m, value) ==
    [m EXCEPT !.fx = value, !.fv = value, !.fw = value]

\* A variant that moves the wrong end of the bracket to x.
UpdateBetterWrongEnd(m) ==
    [m EXCEPT !.a = IF FLe(m.x, m.u) THEN @ ELSE m.x,
              !.b = IF FLe(m.x, m.u) THEN m.x ELSE @,
              !.v = m.w, !.fv = m.fw,
              !.w = m.x, !.fw = m.fx,
              !.x = m.u, !.fx = m.fu]

\* fu <= fx: u is the new best point, x becomes an end of the bracket.
UpdateBetter(m) ==
    [m EXCEPT !.a = IF FLe(m.x, m.u) THEN m.x ELSE @,
              !.b = IF FLe(m.x, m.u) THEN @ ELSE m.x,
              !.v = m.w, !.fv = m.fw,
              !.w = m.x, !.fw = m.fx,
              !.x = m.u, !.fx = m.fu]

\* fx < fu: u becomes an end of the bracket.
ShrinkToU(m) ==
    [m EXCEPT !.a = IF FLt(m.u, m.x) THEN m.u ELSE @,
              !.b = IF FLt(m.u, m.x) THEN @ ELSE m.u]

\* A variant without the tests for points that coincide.
DemoteByValueOnly(m) ==
    IF FLe(m.fu, m.fw)
    THEN [m EXCEPT !.v = m.w, !.fv = m.fw, !.w = m.u, !.fw = m.fu]
    ELSE IF FLe(m.fu, m.fv)
    THEN [m EXCEPT !.v = m.u, !.fv = m.fu]
    ELSE m

\* fx < fu: u may still replace w or v.
Demote(m) ==
    IF FLe(m.fu, m.fw) \/ FEq(m.w, m.x)
    THEN [m EXCEPT !.v = m.w, !.fv = m.fw, !.w = m.u, !.fw = m.fu]
    ELSE IF FLe(m.fu, m.fv) \/ FEq(m.v, m.x) \/ FEq(m.v, m.w)
    THEN [m EXCEPT !.v = m.u, !.fv = m.fu]
    ELSE m

UpdateWorse(m) == Demote(ShrinkToU(m))

\* A variant that takes the larger value for the better one.
CompareReversed(m) == IF FLe(m.fx, m.fu) THEN UpdateBetter(m) ELSE UpdateWorse(m)

Compare(m) == IF FLe(m.fu, m.fx) THEN UpdateBetter(m) ELSE UpdateWorse(m)

\* A variant that compares without recording the value.
SubsequentIterationStale(m, value) == Compare(m)

\* Subsequent iterations: the value at u.
SubsequentIteration(m, value) == Compare([m EXCEPT !.fu = value])

\* midpoint = 0.5 * (a + b)
Midpoint(m) == FMul(FHalf, FAdd(m.a, m.b))

\* tol / 3.0
TolThird == FDiv(tol, FThree)

\* tol1 = eps * std::fabs(x) + tol / 3.0
Tol1(m) == FAdd(FMul(eps, FAbs(m.x)), TolThird)

\* tol2 = 2.0 * tol1
Tol2Of(tol1) == FMul(FTwo, tol1)

\* A variant that does not look at the width of the bracket.
StoppingCriterionNearMiddle(m, midpoint, tol2) ==
    FLe(FAbs(FSub(m.x, midpoint)), tol2)

\* A variant with the half width added to tol2.
StoppingCriterionSignError(m, midpoint, tol2) ==
    FLe(FAbs(FSub(m.x, midpoint)), FAdd(tol2, FMul(FHalf, FSub(m.b, m.a))))

\* The stopping criterion.
StoppingCriterion(m, midpoint, tol2) ==
    FLe(FAbs(FSub(m.x, midpoint)), FSub(tol2, FMul(FHalf, FSub(m.b, m.a))))

\* A variant that leaves iteration as it is.
ExitKeepsIteration(m) == m

\* A variant that answers with the best point x.
ExitWithBest(m) == [m EXCEPT !.iteration = 0, !.arg = m.x]

\* A variant that moves the lower end of the bracket to the best point.
ExitMovesLow(m) == [m EXCEPT !.iteration = 0, !.a = m.x]

\* The exit: the search is over, arg is left as it is.
Exit(m) == [m EXCEPT !.iteration = 0]

\* A golden-section step: e is the larger part of the bracket.
GoldenE(m, midpoint) ==
    [m EXCEPT !.e = IF FLe(midpoint, m.x) THEN FSub(m.a, m.x) ELSE FSub(m.b, m.x)]

GoldenD(m) == [m EXCEPT !.d = FMul(m.c, m.e)]

GoldenSection(m, midpoint) == GoldenD(GoldenE(m, midpoint))

\* r = (x - w) * (fx - fv); q = (x - v) * (fx - fw)
FitProducts(m) ==
    [m EXCEPT !.r = FMul(FSub(m.x, m.w), FSub(m.fx, m.fv)),
              !.q = FMul(FSub(m.x, m.v), FSub(m.fx, m.fw))]

\* p = (x - v) * q - (x - w) * r; q = 2.0 * (q - r)
FitQuotient(m) ==
    [m EXCEPT !.p = FSub(FMul(FSub(m.x, m.v), m.q), FMul(FSub(m.x, m.w), m.r)),
              !.q = FMul(FTwo, FSub(m.q, m.r))]

\* if (0.0 < q) p = -p; q = std::fabs(q); r = e; e = d
FitSigns(m) ==
    [m EXCEPT !.p = IF FLt(FZero(0), m.q) THEN FNeg(@) ELSE @,
              !.q = FAbs(@), !.r = m.e, !.e = m.d]

\* The parabola through (v, fv), (w, fw), (x, fx).
FitParabola(m) == FitSigns(FitQuotient(FitProducts(m)))

\* The parabola is not advised.
ParabolaRejected(m) ==
    \/ FLe(FAbs(FMul(FMul(FHalf, m.q), m.r)), FAbs(m.p))
    \/ FLe(m.p, FMul(m.q, FSub(m.a, m.x)))
    \/ FLe(FMul(m.q, FSub(m.b, m.x)), m.p)

\* d = p / q
InterpolateD(m) == [m EXCEPT !.d = FDiv(m.p, m.q)]

\* u = x + d
InterpolateU(m) == [m EXCEPT !.u = FAdd(m.x, m.d)]

\* u within tol2 of an end of the bracket: d is tol1, towards the midpoint
\* (the two tests of the source assign the same value).
Clamp(m, midpoint, tol1, tol2) ==
    IF FLt(FSub(m.u, m.a), tol2) \/ FLt(FSub(m.b, m.u), tol2)
    THEN [m EXCEPT !.d = FCopysign(tol1, FSub(midpoint, m.x))]
    ELSE m

\* A parabolic interpolation step.
ParabolicStep(m, midpoint, tol1, tol2) ==
    Clamp(InterpolateU(InterpolateD(m)), midpoint, tol1, tol2)

ParabolaOrGolden(m, midpoint, tol1, tol2) ==
    IF ParabolaRejected(m) THEN GoldenSection(m, midpoint)
    ELSE ParabolicStep(m, midpoint, tol1, tol2)

\* Is golden-section necessary?  Else consider fitting a parabola.
ChooseStep(m, midpoint, tol1, tol2) ==
    IF FLe(FAbs(m.e), tol1) THEN GoldenSection(m, midpoint)
    ELSE ParabolaOrGolden(FitParabola(m), midpoint, tol1, tol2)

\* A variant without the least step.
TrialPointAnyStep(m, tol1) == [m EXCEPT !.u = FAdd(m.x, m.d)]

\* F must not be evaluated too close to x.
TrialPoint(m, tol1) ==
    [m EXCEPT !.u = IF FLe(tol1, FAbs(m.d)) THEN FAdd(m.x, m.d)
                    ELSE FAdd(m.x, FCopysign(tol1, m.d))]

\* iteration is an int that operator() compares with 0, 1 and 2 only.  The
\* count is exact below MaxIteration and stays there: counts of MaxIteration
\* and more are one state (the int itself overflows after 2^31 - 1 calls).
MaxIteration == 96

\* Request value of F(u): arg = u; iteration++
RequestValue(m) ==
    [m EXCEPT !.arg = m.u,
              !.iteration = IF @ < MaxIteration THEN @ + 1 ELSE @]

StopOrStep(m, midpoint, tol1, tol2) ==
    IF StoppingCriterion(m, midpoint, tol2) THEN Exit(m)
    ELSE RequestValue(TrialPoint(ChooseStep(m, midpoint, tol1, tol2), tol1))

WithTolerances(m, midpoint, tol1) == StopOrStep(m, midpoint, tol1, Tol2Of(tol1))

\* Take the next step.
NextStep(m) == WithTolerances(m, Midpoint(m), Tol1(m))

\* The value is recorded and the bracket updated, before the next step.
RecordValue(m, value) ==
    IF m.iteration = 1 THEN SecondIteration(m, value)
    ELSE SubsequentIteration(m, value)

\* A variant whose first call records the value as well.
CallRecordsFirstValue(m, value) ==
    IF m.iteration = 0 THEN SecondIteration(FirstIteration(m), value)
    ELSE NextStep(RecordValue(m, value))

\* operator()(value): the object after the call; the call returns its arg.
Call(m, value) ==
    IF m.iteration = 0 THEN FirstIteration(m)
    ELSE NextStep(RecordValue(m, value))

\* Does the stopping criterion hold once the value is recorded?
Stops(m) == StoppingCriterion(m, Midpoint(m), Tol2Of(Tol1(m)))

\* The return statement the call ends at: the first point (line 120), the
\* final answer (line 186) or the request for a value (line 265).
ReturnKind(m, value) ==
    IF m.iteration = 0 THEN "first"
    ELSE IF Stops(RecordValue(m, value)) THEN "final"
    ELSE "request"

-----------------------------------------------------------------------------
(* The caller.  A caller of kind "any" passes any value it likes and may   *)
(* go on calling after an answer; the other callers run the loop of        *)
(* test/tests.cpp with an objective function and stop at the answer.       *)

MaxValue == 1
MaxLow == 1
MaxWidth == 12
MaxZeroWidth == 3
MaxMinimizer == 3
MaxSearches == 2

FOne == FInt(1)

\* 1 + k * 2^-26 and k * 2^-52 (2^-26 is eps, 2^-52 is tol): a bracket of a few
\* tol1 ends within a few calls.
Near(k) == FAdd(FOne, FScale(FInt(k), -26))
AtZero(k) == FScale(FInt(k), 1 - Precision)

Values == {FInt(k) : k \in 0..MaxValue}

Caller(kind, m) == [kind |-> kind, m |-> m]

\* The objective functions: (t - m)^2 and cos t as in the tests, |t - m|, t
\* and -t.
ObjectiveValue(o, t) ==
    CASE o.kind = "quad" -> FMul(FSub(t, o.m), FSub(t, o.m))
      [] o.kind = "cos"  -> FCos(t)
      [] o.kind = "abs"  -> FAbs(FSub(t, o.m))
      [] o.kind = "up"   -> t
      [] o.kind = "down" -> FNeg(t)

Case(from, to, objective) == [from |-> from, to |-> to, objective |-> objective]

\* Small brackets at 1.0 for any caller, and with |t - m| for a minimiser m.
NearCases ==
    {Case(Near(i), Near(j), Caller(k, Near(n))) :
        i \in 0..MaxLow, j \in 0..MaxWidth, n \in 0..MaxMinimizer, k \in {"any", "abs"}}

\* Small brackets around 0.0.
ZeroCases ==
    {Case(FNeg(AtZero(k)), AtZero(k), Caller("any", FOne)) : k \in 1..MaxZeroWidth}

\* The interval of the test, with the objective of the test and others.
TestCases ==
    {Case(FZero(0), FFive, Caller(k, FInt(n))) :
        k \in {"quad", "abs", "up", "down"}, n \in 1..MaxMinimizer}

\* The second test of test/tests.cpp: cos t on [0, 6.28].
CosTest == Case(FZero(0), FDiv(FInt(628), FInt(100)), Caller("cos", FOne))

\* Two neighbouring doubles.
TightCases == {Case(FOne, FAdd(FOne, tol), Caller("any", FOne))}

\* 2^1023: the interval from -2^1023 to 2^1023 is wider than any double.
Huge == FScale(FOne, MaxExponent - 1)

WideCases == {Case(FNeg(Huge), Huge, Caller("any", FOne))}

\* What the constructor is given, and by which caller.  A caller's m counts
\* only for "quad" and "abs", and there it lies inside the interval.
Cases ==
    {c \in NearCases \cup ZeroCases \cup TestCases \cup {CosTest} \cup TightCases \cup WideCases :
        /\ c.objective.kind \in {"any", "up", "down", "cos"} => c.objective.m = FOne
        /\ c.objective.kind = "quad" => c.objective.m = FTwo
        /\ c.objective.kind = "abs" => FLt(c.from, c.objective.m) /\ FLt(c.objective.m, c.to)}

VARIABLES
    built,      \* "none", "ok" (an object exists) or "threw"
    given,      \* the case: the constructor's arguments and the caller
    obj,        \* the object's fields
    ret,        \* the caller's arg: what the last call returned
    last,       \* the return statement the last call ended at, or "none"
    searches,   \* the number of calls made with iteration = 0
    error,      \* the bounds the exception's message reports, or << >>
    parity,     \* the number of calls made, modulo 2
    ready,      \* what IsReady() returned since the last call, or << >>
    points,     \* the number of points the calls of this search have proposed
    least,      \* the least value supplied in this search, or << >>
    leastAt     \* the points of this search at which it was supplied

vars ==
    <<built, given, obj, ret, last, searches, error, parity, ready, points,
      least, leastAt>>

Init ==
    /\ built = "none"
    /\ given = Case(FZero(0), FZero(0), Caller("any", FOne))
    /\ obj = NewObject(FZero(0), FZero(0))
    /\ ret = FZero(0)
    /\ last = "none"
    /\ searches = 0
    /\ error = <<>>
    /\ parity = 0
    /\ ready = <<>>
    /\ points = 0
    /\ least = <<>>
    /\ leastAt = {}

\* LocalMinReverseCommunication local_min_rc{a, b}
Construct(case) ==
    /\ built = "none"
    /\ given' = case
    /\ IF ConstructorThrows(case.from, case.to)
       THEN built' = "threw" /\ obj' = obj /\ error' = <<case.from, case.to>>
       ELSE built' = "ok" /\ obj' = NewObject(case.from, case.to) /\ error' = error
    /\ UNCHANGED <<ret, last, searches, parity, ready, points, least, leastAt>>

\* The values the caller may pass: the objective at the point it was given
\* (0.0 in the first call of the test loop).
Supplied ==
    IF given.objective.kind = "any" THEN Values
    ELSE IF last = "none" THEN {FZero(0)}
    ELSE {ObjectiveValue(given.objective, ret)}

\* The test loop breaks when IsReady(); any other caller may start again.
MayCall ==
    /\ built = "ok"
    /\ \/ ~IsReady(obj)
       \/ last = "none"
       \/ given.objective.kind = "any" /\ searches < MaxSearches

\* The points proposed in a search, counted by the return statements: the
\* first point (line 120) is point one, each request (line 265) is one
\* more, the final answer (line 186) is none.  Counted up to MaxIteration.
Proposed(n, kind) ==
    IF kind = "first" THEN 1
    ELSE IF kind = "request" /\ n < MaxIteration THEN n + 1
    ELSE n

\* What the caller has told the object in this search: the call that starts
\* a search tells nothing, every other call gives the value at the point
\* the call before returned.
LeastValue(value) ==
    IF IsReady(obj) THEN <<>>
    ELSE IF least = <<>> THEN <<value>>
    ELSE IF FLt(value, least[1]) THEN <<value>>
    ELSE least

LeastPoints(value) ==
    IF IsReady(obj) THEN {}
    ELSE IF least = <<>> THEN {ret}
    ELSE IF FLt(value, least[1]) THEN {ret}
    ELSE IF FEq(value, least[1]) THEN leastAt \cup {ret}
    ELSE leastAt

\* arg = local_min_rc(value)
Step(value) ==
    /\ MayCall
    /\ obj' = Call(obj, value)
    /\ ret' = obj'.arg
    /\ last' = ReturnKind(obj, value)
    /\ searches' = IF IsReady(obj) THEN searches + 1 ELSE searches
    /\ parity' = 1 - parity
    /\ ready' = <<>>
    /\ points' = Proposed(points, last')
    /\ least' = LeastValue(value)
    /\ leastAt' = LeastPoints(value)
    /\ UNCHANGED <<built, given, error>>

\* A variant that starts a new search when asked.
AskIsReadyResets ==
    /\ built = "ok"
    /\ ready' = <<IsReady(obj)>>
    /\ obj' = Exit(obj)
    /\ UNCHANGED <<built, given, ret, last, searches, error, parity, points,
                   least, leastAt>>

\* local_min_rc.IsReady(): a const member function; the caller keeps the
\* result.
AskIsReady ==
    /\ built = "ok"
    /\ ready' = <<IsReady(obj)>>
    /\ UNCHANGED <<built, given, obj, ret, last, searches, error, parity, points,
                   least, leastAt>>

Next ==
    \/ \E case \in Cases : Construct(case)
    \/ \E value \in Supplied : Step(value)
    \/ AskIsReady

Spec == Init /\ [][Next]_vars

\* A call is made: operator() returns for every value, so a call is possible
\* whenever the caller may call, and it is the step that changes the parity.
Called == MayCall /\ parity' = 1 - parity

\* The caller goes on as long as it may call.
FairSpec == Spec /\ WF_parity(Called)

\* The least exponent of a normal double: 2^MinExponent.
MinExponent == -1022

\* No value of the object is subnormal.
NoUnderflow ==
    \A f \in DOMAIN obj \ {"iteration"} :
        obj[f].m = <<>> \/ obj[f].e + Precision > MinExponent

-----------------------------------------------------------------------------
(* The properties.                                                         *)

\* C1: IsReady() is true only right after construction and right after a
\* call that returned the final answer; after every other call, the first of
\* a search and every one that proposes a point, it is false.
ReadinessProtocol ==
    built = "ok" => (IsReady(obj) <=> last \in {"none", "final"})

\* A second search has run to its final answer.
ReadyAfterSecondAnswer ==
    built = "ok" /\ last = "final" /\ IsReady(obj) /\ searches > 1

\* C2: the constructor throws, reporting both bounds, exactly when
\* high <= low; otherwise the object starts with iteration = 0 on the given
\* interval, and no object exists on an interval with high <= low.
ConstructionRefusesEmptyInterval ==
    /\ built # "none" => (built = "threw" <=> ~FLt(given.from, given.to))
    /\ built = "threw" => error = <<given.from, given.to>>
    /\ built = "ok" => FLt(given.from, given.to) /\ error = <<>>
    /\ (built = "ok" /\ last = "none") =>
          /\ obj.iteration = 0
          /\ IsReady(obj)
          /\ obj.a = given.from
          /\ obj.b = given.to

\* The constructor was given high = low and threw.
ThrewOnEqualBounds ==
    built = "threw" /\ FEq(given.from, given.to) /\ error = <<given.from, given.to>>

\* C4: a call that finds the stopping criterion true while a search runs sets
\* iteration to 0, proposes no point and returns arg as it was: the point
\* the call before returned.
ConvergenceReturnsLastPoint ==
    [][(~IsReady(obj) /\ last' = "final") =>
          /\ obj'.iteration = 0
          /\ obj'.arg = obj.arg
          /\ obj'.u = obj.u
          /\ ret' = ret]_vars

\* A final answer that is the last point proposed and not the best point x.
AnswerIsNotBestPoint ==
    built = "ok" /\ last = "final" /\ ret = obj.arg /\ ret = obj.u /\ ~FEq(ret, obj.x)

\* (3 - sqrt 5) / 2
GoldenRatioSquared == FDiv(FSub(FThree, FSqrt(FFive)), FTwo)

\* C5: a call made with iteration = 0, the first ever or the one after an
\* answer, ignores its argument; it returns low + c * (high - low) with
\* c = (3 - sqrt 5) / 2, sets x = w = v to that point, e to 0 and iteration
\* to 1.
FirstCallIgnoresValue ==
    /\ (built = "ok" /\ obj.iteration = 0) =>
          \A v1, v2 \in Values : Call(obj, v1) = Call(obj, v2)
    /\ last = "first" =>
          /\ ret = FAdd(obj.a, FMul(GoldenRatioSquared, FSub(obj.b, obj.a)))
          /\ obj.x = ret /\ obj.w = ret /\ obj.v = ret /\ obj.arg = ret
          /\ obj.e = FZero(0)
          /\ obj.iteration = 1

\* The first point of a second search, on the bracket the first one left.
SecondSearchStarted ==
    /\ last = "first" /\ searches > 1
    /\ obj.a # given.from \/ obj.b # given.to

\* C3: the bracket never widens, whatever values are supplied and also in
\* a call made after an answer: low never decreases, high never increases.
BracketNeverWidens ==
    [][built = "ok" => ~FLt(obj'.a, obj.a) /\ ~FLt(obj.b, obj'.b)]_vars

\* The upper end of the bracket of a finite interval is infinite.
HighBecameInfinite ==
    built = "ok" /\ IsFinite(given.to) /\ IsInf(obj.b) /\ obj.b.s = 0

NearlyTol1(tol1) == FMul(tol1, FSub(FOne, FScale(eps, 2)))

ReturnedPointsStrictlyInside ==
    (built = "ok" /\ last # "none") => FLt(given.from, ret) /\ FLt(ret, given.to)

\* The first point of a search is the lower bound A itself.
ReturnedLowerBound ==
    built = "ok" /\ last = "first" /\ searches = 1 /\ ret = given.from

\* The test of test/tests.cpp: (t - 2)^2 on [0, 5].
QuadTest == Case(FZero(0), FFive, Caller("quad", FTwo))

\* The double 1e-4 of the test.
TenThousandth == FDiv(FOne, FInt(10000))

\* EXPECT_NEAR(arg, 2.0, 1e-4)
ExpectNearTwo(arg) == FLe(FAbs(FSub(arg, FTwo)), TenThousandth)

\* C8: the loop of the test with f(t) = (t - 2)^2 on [0, 5] ends, and the
\* point the last call returned is within 1e-4 of 2.0.
QuadTestConverges ==
    (built = "ok" /\ given = QuadTest)
        ~> (last = "final" /\ IsReady(obj) /\ ExpectNearTwo(ret))

\* The test loop has ended with its answer.
QuadTestAnswered ==
    given = QuadTest /\ last = "final" /\ IsReady(obj) /\ ExpectNearTwo(ret)

\* C9: with the values of a strictly unimodal function whose minimiser m is
\* inside (A, B), the bracket [a, b] contains m after every call of the
\* search, the one that reports convergence included.
BracketContainsMinimizer ==
    (built = "ok" /\ given.objective.kind \in {"quad", "abs"}) =>
        FLe(obj.a, given.objective.m) /\ FLe(given.objective.m, obj.b)

\* A search on |t - m| has ended with both ends of the bracket moved.
MinimizerBracketedAtAnswer ==
    /\ given.objective.kind = "abs" /\ last = "final"
    /\ FLt(given.from, obj.a) /\ FLt(obj.b, given.to)
    /\ FLe(obj.a, given.objective.m) /\ FLe(given.objective.m, obj.b)

\* C10: for every interval and every sequence of finite values, a search
\* that has started ends: IsReady() becomes true again.
SearchTerminates ==
    (built = "ok" /\ ~IsReady(obj)) ~> IsReady(obj)

\* A search that has lost its best point to a NaN and goes on.
SearchingOnNaN ==
    built = "ok" /\ ~IsReady(obj) /\ IsNaN(obj.x) /\ obj.iteration = MaxIteration

\* C11: IsReady() returns true exactly when iteration = 0 and changes no
\* field of the object: asked again before the next call it returns the
\* same, and the next call, which reads nothing but the fields and its
\* argument, returns the point it would have returned had IsReady() not
\* been asked.
IsReadyIsPure ==
    /\ [](ready # <<>> => (ready[1] <=> obj.iteration = 0))
    /\ [][(built = "ok" /\ parity' = parity) =>
             /\ obj' = obj
             /\ ret' = ret
             /\ ready # <<>> => ready' = ready]_vars

\* IsReady() has returned false in the midst of a search.
AskedWhileSearching ==
    built = "ok" /\ ready = <<FALSE>> /\ obj.iteration > 2

\* The doubles 3.14159 and 1e-3 of the test.
PiOfTest == FDiv(FInt(314159), FInt(100000))
Thousandth == FDiv(FOne, FInt(1000))

\* EXPECT_NEAR(arg, 3.14159, 1e-3)
ExpectNearPi(arg) == FLe(FAbs(FSub(arg, PiOfTest)), Thousandth)

\* The double nearest to pi, 7074237752028440 * 2^-51.
Pi == FRound(0, <<11544, 10376, 2029, 201>>, -51)

\* C12: the loop of the test with f(t) = cos t on [0, 6.28] ends, and the
\* point the last call returned passes the test's EXPECT_NEAR and is less
\* than 1e-3 from pi.
CosTestConverges ==
    (built = "ok" /\ given = CosTest)
        ~> (/\ last = "final" /\ IsReady(obj)
            /\ ExpectNearPi(ret)
            /\ Closer(ret, Pi, Thousandth))

\* The loop of the cos test has ended with its answer.
CosTestAnswered ==
    /\ given = CosTest /\ last = "final" /\ IsReady(obj)
    /\ ExpectNearPi(ret) /\ Closer(ret, Pi, Thousandth)

\* C13: a call changes iteration from 0 to 1 (the first point), from k >= 1
\* to k + 1 (a point is proposed) or from k >= 1 to 0 (the answer), and in
\* no other way; iteration is never negative, and while a search runs it
\* is the number of points proposed so far in that search.  Counts are
\* followed up to MaxIteration.
IterationCountsPoints ==
    /\ [](obj.iteration >= 0)
    /\ []((built = "ok" /\ ~IsReady(obj)) => obj.iteration = points)
    /\ [][parity' # parity =>
             /\ obj.iteration = 0 => obj'.iteration = 1 /\ last' = "first"
             /\ obj.iteration >= 1 =>
                   \/ last' = "final" /\ obj'.iteration = 0
                   \/ /\ last' = "request"
                      /\ obj.iteration < MaxIteration => obj'.iteration = obj.iteration + 1
                      /\ obj.iteration = MaxIteration => obj'.iteration = MaxIteration]_vars

\* A search is in a phase after the first two, five points proposed.
FifthPointProposed ==
    built = "ok" /\ last = "request" /\ obj.iteration = 5 /\ points = 5

\* C14: the call that reports convergence leaves the bracket as the update
\* for the value it was given made it, inside the interval of the
\* constructor, and the call after it leaves the bracket alone and returns
\* low + c * (high - low) for that bracket.
BracketKeptAfterAnswer ==
    [][/\ (~IsReady(obj) /\ last' = "final") =>
             /\ \E value \in Supplied :
                    /\ obj'.a = RecordValue(obj, value).a
                    /\ obj'.b = RecordValue(obj, value).b
             /\ FLe(given.from, obj'.a) /\ FLe(obj.a, obj'.a)
             /\ FLe(obj'.b, given.to) /\ FLe(obj'.b, obj.b)
       /\ (last = "final" /\ last' = "first") =>
             /\ obj'.a = obj.a /\ obj'.b = obj.b
             /\ ret' = FAdd(obj.a, FMul(GoldenRatioSquared, FSub(obj.b, obj.a)))]_vars

\* The first point of the interval of the constructor.
FirstPointGiven == FAdd(given.from, FMul(GoldenC, FSub(given.to, given.from)))

\* A second search has started on a bracket with both ends moved, at another
\* point than the first search.
RestartedOnNarrowedBracket ==
    /\ last = "first" /\ searches = 2
    /\ FLt(given.from, obj.a) /\ FLt(obj.b, given.to)
    /\ FLt(obj.a, ret) /\ FLt(ret, obj.b)
    /\ ret # FirstPointGiven

\* C15: a call in a phase >= 2 whose value fu is greater than fx leaves x
\* and fx, moves to u the end of the bracket on the side of u (low when
\* u < x, high otherwise), and then: if fu <= fw or w == x, (v, fv) becomes
\* (w, fw) and (w, fw) becomes (u, fu); else if fu <= fv or v == x or
\* v == w, (v, fv) becomes (u, fu); else v, fv, w and fw stay.
WorsePointDemoted ==
    [][(parity' # parity /\ obj.iteration >= 2 /\ FLt(obj.fx, obj'.fu)) =>
          /\ obj'.x = obj.x /\ obj'.fx = obj.fx
          /\ IF FLt(obj.u, obj.x)
             THEN obj'.a = obj.u /\ obj'.b = obj.b
             ELSE obj'.a = obj.a /\ obj'.b = obj.u
          /\ <<obj'.v, obj'.fv, obj'.w, obj'.fw>> =
                IF FLe(obj'.fu, obj.fw) \/ FEq(obj.w, obj.x)
                THEN <<obj.w, obj.fw, obj.u, obj'.fu>>
                ELSE IF FLe(obj'.fu, obj.fv) \/ FEq(obj.v, obj.x) \/ FEq(obj.v, obj.w)
                THEN <<obj.u, obj'.fu, obj.w, obj.fw>>
                ELSE <<obj.v, obj.fv, obj.w, obj.fw>>]_vars

\* The last value was greater than fx, fw and fv at three distinct points:
\* the call has left v and w.
WorstPointLeftOut ==
    /\ built = "ok" /\ obj.iteration >= 3 /\ last \in {"request", "final"}
    /\ FLt(obj.fx, obj.fu) /\ FLt(obj.fw, obj.fu) /\ FLt(obj.fv, obj.fu)
    /\ ~FEq(obj.w, obj.x) /\ ~FEq(obj.v, obj.x) /\ ~FEq(obj.v, obj.w)
    /\ IsFinite(obj.x) /\ IsFinite(obj.v) /\ IsFinite(obj.w)

\* C16: after every call of a search but its first, fx is the least of the
\* values supplied in that search, so that fx <= fw and fx <= fv, and x is
\* a point that a call of that search returned and at which that least
\* value was supplied.
BestPointHasLeastValue ==
    (built = "ok" /\ last \in {"request", "final"}) =>
        /\ least # <<>>
        /\ FEq(obj.fx, least[1])
        /\ FLe(obj.fx, obj.fw) /\ FLe(obj.fx, obj.fv)
        /\ obj.x \in leastAt

\* The least value was supplied at more than one point, x and w among them,
\* and the last value was greater.
BestPointReplacedOnTie ==
    /\ built = "ok" /\ last = "request" /\ obj.iteration > 3
    /\ Cardinality(leastAt) > 1
    /\ obj.x \in leastAt /\ obj.w \in leastAt
    /\ FLt(obj.fx, obj.fu) /\ IsFinite(obj.x)

\* C17: after every call of a search, low <= x <= high, and a point that
\* the call proposes lies in [low, high] when it is returned.
BestAndTrialInsideBracket ==
    (built = "ok" /\ last # "none") =>
        /\ FLe(obj.a, obj.x) /\ FLe(obj.x, obj.b)
        /\ last \in {"first", "request"} => FLe(obj.a, ret) /\ FLe(ret, obj.b)

\* The first point of a search on finite bounds is infinite: x is above high.
BestPointAboveHigh ==
    /\ built = "ok" /\ last = "first" /\ searches = 1
    /\ IsFinite(obj.a) /\ IsFinite(obj.b)
    /\ IsInf(obj.x) /\ ret = obj.x /\ FLt(obj.b, obj.x)

UpperGoldenPoint(m) ==
    IF FLt(FMul(GoldenRatioSquared, FSub(m.b, m.x)), Tol1(m))
    THEN FAdd(m.x, Tol1(m))
    ELSE FAdd(m.x, FMul(GoldenRatioSquared, FSub(m.b, m.x)))

\* C19: the call of phase 1 finds x = low + c * (high - low) and, whatever
\* value it is given, either reports convergence or takes the
\* golden-section step into the upper part of the bracket and returns
\* x + max(c * (high - x), tol1): any other value at the first point gives
\* the same return and the same second point.
SecondPointIgnoresValue ==
    [][(parity' # parity /\ obj.iteration = 1) =>
          /\ obj.x = FAdd(obj.a, FMul(GoldenRatioSquared, FSub(obj.b, obj.a)))
          /\ \/ last' = "final"
             \/ /\ last' = "request"
                /\ obj'.e = FSub(obj.b, obj.x)
                /\ ret' = UpperGoldenPoint(obj)
          /\ \A value \in Values :
                /\ ReturnKind(obj, value) = last'
                /\ Call(obj, value).arg = ret']_vars

\* The second point of a search on finite bounds is a NaN: the step went
\* into the lower part, e = low - x = -inf.
SecondPointIsNaN ==
    /\ built = "ok" /\ last = "request" /\ obj.iteration = 2
    /\ IsFinite(obj.a) /\ IsFinite(obj.b)
    /\ IsInf(obj.e) /\ obj.e.s = 1
    /\ IsNaN(ret)

=============================================================================
